---- MODULE Spec2Model ----
(***************************************************************************)
(* Model of the Streamlit page 程序APP3.py: a model artifact is loaded     *)
(* once and cached, the feature order is resolved against the registry,    *)
(* the input form is built, and a submission is turned into one row that   *)
(* is handed to the model, classified into a risk tier and explained.      *)
(*                                                                         *)
(* Numerical feature values are in hundredths (Age 25 is 2500), options of *)
(* categorical features are as declared, and the death probability is in   *)
(* tenths of a percent (300 is 30.0%).                                     *)
(***************************************************************************)
EXTENDS Integers, Sequences, FiniteSets, TLC

\* ------------------------------------------------------------------ bounds
\* longest feature-name list a model artifact declares
MaxNames == 2
\* page runs (the first one and the reruns caused by user interaction)
MaxRuns == 2

\* ---------------------------------------------------------------- helpers
SeqRange(s) == {s[i] : i \in 1..Len(s)}

Contains(s, x) == \E i \in 1..Len(s) : s[i] = x

RECURSIVE Reverse(_)
Reverse(s) == IF s = <<>> THEN <<>> ELSE Append(Reverse(Tail(s)), Head(s))

\* a Python dict / one-row DataFrame: keys in insertion order and their values
EmptyDict == [keys |-> <<>>, val |-> <<>>]

\* d[k] = v : a new key goes last, an existing key keeps its place
DictSet(d, k, v) ==
    IF Contains(d.keys, k)
    THEN [keys |-> d.keys,
          val |-> [i \in 1..Len(d.keys) |-> IF d.keys[i] = k THEN v ELSE d.val[i]]]
    ELSE [keys |-> Append(d.keys, k), val |-> Append(d.val, v)]

DictGet(d, k) == d.val[CHOOSE i \in 1..Len(d.keys) : d.keys[i] = k]

\* -------------------------------------------------------------- registry
feature_ranges_declared ==
    << [name |-> "Intraoperative Blood Loss", type |-> "numerical",
        min |-> 0, max |-> 80000, default |-> 5000, options |-> {}],
       [name |-> "CEA", type |-> "numerical",
        min |-> 0, max |-> 15000, default |-> 868, options |-> {}],
       [name |-> "Albumin", type |-> "numerical",
        min |-> 100, max |-> 8000, default |-> 3860, options |-> {}],
       [name |-> "TNM Stage", type |-> "categorical",
        min |-> 0, max |-> 0, default |-> 2, options |-> {1, 2, 3, 4}],
       [name |-> "Age", type |-> "numerical",
        min |-> 2500, max |-> 9000, default |-> 7600, options |-> {}],
       [name |-> "Max Tumor Diameter", type |-> "numerical",
        min |-> 20, max |-> 2000, default |-> 400, options |-> {}],
       [name |-> "Lymphovascular Invasion", type |-> "categorical",
        min |-> 0, max |-> 0, default |-> 1, options |-> {0, 1}] >>

RegistryOrder ==
    [i \in 1..Len(feature_ranges_declared) |-> feature_ranges_declared[i].name]

Properties(feature) ==
    feature_ranges_declared[CHOOSE i \in 1..Len(feature_ranges_declared) :
                                feature_ranges_declared[i].name = feature]

\* names a model artifact may declare: the registry's and one it does not know
ModelNames == SeqRange(RegistryOrder) \cup {"BMI"}

\* ------------------------------------------------------------ the artifact
NameLists ==
    {s \in UNION {[1..k -> ModelNames] : k \in 1..MaxNames} :
        \A i, j \in 1..Len(s) : i # j => s[i] # s[j]}

ArityChoices ==
    {Len(RegistryOrder) - 1, Len(RegistryOrder), Len(RegistryOrder) + 1}

None == [isNone |-> TRUE, hasN |-> FALSE, n_features_in_ |-> 0,
         hasNames |-> FALSE, feature_names_in_ |-> <<>>]

\* estimators that carry feature_names_in_ carry the matching n_features_in_
Estimators ==
    {[isNone |-> FALSE, hasN |-> TRUE, n_features_in_ |-> Len(s),
      hasNames |-> TRUE, feature_names_in_ |-> s] : s \in NameLists}
    \cup {[isNone |-> FALSE, hasN |-> TRUE, n_features_in_ |-> n,
           hasNames |-> FALSE, feature_names_in_ |-> <<>>] : n \in ArityChoices}
    \cup {[isNone |-> FALSE, hasN |-> FALSE, n_features_in_ |-> 0,
           hasNames |-> FALSE, feature_names_in_ |-> <<>>]}

\* what joblib.load('rf.pkl') finds: an estimator, or a missing/corrupt file
Artifacts == {[loadable |-> TRUE, obj |-> m] : m \in Estimators}
             \cup {[loadable |-> FALSE, obj |-> None]}

\* death probabilities (tenths of a percent) predict_proba[1] * 100 may give
ProbChoices == {0, 80, 299, 300, 301, 699, 700, 701, 1000}

NoResult == [shown |-> FALSE, risk_category |-> "none",
             death_probability |-> 0, survival_probability |-> 0]

VARIABLES
    artifact,            \* the file rf.pkl
    cache,               \* st.cache_resource entry of load_model
    model,               \* module-level model
    pc,                  \* position of the page run
    runs,                \* page runs started
    feature_input_order, \* resolved required order
    feature_ranges,      \* keys of the (re-ordered) registry dict
    sidebar_warnings,    \* reconciliation warnings, in order
    feature_values,      \* dict filled by the form
    predict_button,
    model_input,         \* rows handed to predict / predict_proba, in order
    shap_calls,          \* uses of the attribution engine in this run
    result,              \* the metric cards
    shap_plot,           \* waterfall plot shown
    messages,            \* st.error / st.warning messages of this run, in order
    guide                \* usage guide shown instead of a result

vars == <<artifact, cache, model, pc, runs, feature_input_order, feature_ranges,
          sidebar_warnings, feature_values, predict_button, model_input,
          shap_calls, result, shap_plot, messages, guide>>

\* --------------------------------------------------------------- load_model
\* joblib.load gives the estimator or raises; the except branch returns None
load_model(a) == IF a.loadable THEN a.obj ELSE None

Init ==
    /\ artifact \in Artifacts
    /\ cache = "empty"
    /\ model = None
    /\ pc = "load"
    /\ runs = 1
    /\ feature_input_order = <<>>
    /\ feature_ranges = <<>>
    /\ sidebar_warnings = <<>>
    /\ feature_values = EmptyDict
    /\ predict_button = FALSE
    /\ model_input = <<>>
    /\ shap_calls = 0
    /\ result = NoResult
    /\ shap_plot = FALSE
    /\ messages = <<>>
    /\ guide = FALSE

\* model = load_model(): the body runs on the first call, later runs hit the cache
LoadModel ==
    /\ pc = "load"
    /\ IF cache = "empty"
       THEN /\ model' = load_model(artifact)
            /\ cache' = "filled"
            /\ messages' = IF artifact.loadable THEN messages
                           ELSE Append(messages, "load_error")
       ELSE UNCHANGED <<model, cache, messages>>
    /\ pc' = "resolve"
    /\ UNCHANGED <<artifact, runs, feature_input_order, feature_ranges,
                   sidebar_warnings, feature_values, predict_button, model_input,
                   shap_calls, result, shap_plot, guide>>

\* ------------------------------------------------- feature order resolution
UsesModelNames(m) == ~m.isNone /\ m.hasNames

\* feature_ranges_ordered: the model's names that the registry declares
RECURSIVE feature_ranges_ordered(_, _)
feature_ranges_ordered(names, ranges) ==
    IF names = <<>> THEN <<>>
    ELSE IF Contains(ranges, Head(names))
         THEN <<Head(names)>> \o feature_ranges_ordered(Tail(names), ranges)
         ELSE feature_ranges_ordered(Tail(names), ranges)

\* one warning per name of `of` that `other` lacks, in the order of `of`
RECURSIVE GapWarnings(_, _, _)
GapWarnings(kind, of, other) ==
    IF of = <<>> THEN <<>>
    ELSE IF Contains(other, Head(of))
         THEN GapWarnings(kind, Tail(of), other)
         ELSE <<[kind |-> kind, feature |-> Head(of)]>>
              \o GapWarnings(kind, Tail(of), other)

ResolveRanges(m, ranges) ==
    IF UsesModelNames(m) THEN feature_ranges_ordered(m.feature_names_in_, ranges)
    ELSE ranges

\* mutation: the order is read off the re-ordered registry dict
ResolveOrderFromRanges(m, ranges) == ResolveRanges(m, ranges)

ResolveOrder(m, ranges) ==
    IF UsesModelNames(m) THEN m.feature_names_in_ ELSE ranges

ResolveWarnings(m, ranges) ==
    IF UsesModelNames(m)
    THEN GapWarnings("model_only", m.feature_names_in_, ranges)
         \o GapWarnings("ui_only", ranges, m.feature_names_in_)
    ELSE <<>>

\* the registry literal is evaluated afresh in every run, then re-ordered
Resolve ==
    /\ pc = "resolve"
    /\ feature_input_order' = ResolveOrder(model, RegistryOrder)
    /\ feature_ranges' = ResolveRanges(model, RegistryOrder)
    /\ sidebar_warnings' = ResolveWarnings(model, RegistryOrder)
    /\ pc' = "form"
    /\ UNCHANGED <<artifact, cache, model, runs, feature_values, predict_button,
                   model_input, shap_calls, result, shap_plot, messages, guide>>

\* ------------------------------------------------------------ the input form
\* st.slider over [min, max] starting at default; st.radio over the options
WidgetValues(properties) ==
    IF properties.type = "numerical"
    THEN {properties.min, properties.default, properties.max}
    ELSE properties.options

\* mutation: the form walks the features backwards
WidgetOrderReversed(order) == Reverse(order)

\* the order in which the form walks the features
WidgetOrder(order) == order

\* for feature in feature_input_order: properties = feature_ranges[feature]; ...
\* a name feature_ranges lacks raises KeyError and ends the page run
RECURSIVE FormLoop(_, _, _)
FormLoop(order, ranges, values) ==
    IF order = <<>> THEN {[values |-> values, keyError |-> FALSE]}
    ELSE IF ~Contains(ranges, Head(order))
         THEN {[values |-> values, keyError |-> TRUE]}
         ELSE UNION {FormLoop(Tail(order), ranges, DictSet(values, Head(order), v)) :
                        v \in WidgetValues(Properties(Head(order)))}

BuildForm ==
    /\ pc = "form"
    /\ \E form \in FormLoop(WidgetOrder(feature_input_order), feature_ranges, EmptyDict) :
          /\ feature_values' = form.values
          /\ IF form.keyError
             THEN pc' = "crashed" /\ predict_button' = FALSE
             ELSE pc' = "col2" /\ predict_button' \in BOOLEAN
    /\ UNCHANGED <<artifact, cache, model, runs, feature_input_order, feature_ranges,
                   sidebar_warnings, model_input, shap_calls, result, shap_plot,
                   messages, guide>>

\* ------------------------------------------------------------ the submission
\* mutation: the handle is not tested
SubmitGuardButtonOnly(button, m) == button

\* if predict_button and model is not None
SubmitGuard(button, m) == button /\ ~m.isNone

\* [f for f in model.feature_names_in_ if f not in features_df.columns]
RECURSIVE missing_features(_, _)
missing_features(names, columns) ==
    IF names = <<>> THEN <<>>
    ELSE IF Contains(columns, Head(names))
         THEN missing_features(Tail(names), columns)
         ELSE <<Head(names)>> \o missing_features(Tail(names), columns)

\* features_df[names]: the columns `names`, in that order
SelectColumns(df, names) ==
    [keys |-> names, val |-> [i \in 1..Len(names) |-> DictGet(df, names[i])]]

\* features_df as it reaches .values: re-ordered only for a model with names
features_df(m, values) ==
    IF m.hasNames THEN SelectColumns(values, m.feature_names_in_) ELSE values

\* an estimator rejects an array whose width is not its n_features_in_
ArityMismatch(m, row) == m.hasN /\ m.n_features_in_ # Len(row.keys)

\* what the calls inside the try blocks may do: predict or predict_proba raise
\* or give a death probability, the rendering of the result raises or not, the
\* attribution engine raises or not
Outcomes(m, row) ==
    {[predict |-> "predict_raises", p |-> 0, render_ok |-> TRUE, shap_ok |-> TRUE]}
    \cup
    IF m.isNone \/ ArityMismatch(m, row) THEN {}
    ELSE {[predict |-> "proba_raises", p |-> 0, render_ok |-> TRUE, shap_ok |-> TRUE]}
         \cup {[predict |-> "returns", p |-> q, render_ok |-> FALSE, shap_ok |-> TRUE] :
                  q \in ProbChoices}
         \cup {[predict |-> "returns", p |-> q, render_ok |-> TRUE, shap_ok |-> b] :
                  q \in ProbChoices, b \in BOOLEAN}

\* rows the model was called with: predict first, then predict_proba
ModelCalls(m, row, o) ==
    IF m.isNone THEN <<>>
    ELSE IF o.predict = "predict_raises" THEN <<row>> ELSE <<row, row>>

\* mutation: 30.0% already counts as moderate
RiskCategoryFrom30(death_probability) ==
    IF death_probability >= 300 /\ death_probability <= 700 THEN "moderate"
    ELSE IF death_probability > 700 THEN "high"
    ELSE "low"

\* mutation: 70.0% already counts as high
RiskCategoryFrom70(death_probability) ==
    IF death_probability > 300 /\ death_probability < 700 THEN "moderate"
    ELSE IF death_probability >= 700 THEN "high"
    ELSE "low"

\* risk_category from death_probability (tenths of a percent)
RiskCategory(death_probability) ==
    IF death_probability > 300 /\ death_probability <= 700 THEN "moderate"
    ELSE IF death_probability > 700 THEN "high"
    ELSE "low"

\* the metric cards: tier, survival and death probability
ResultCards(o) ==
    IF o.predict = "returns"
    THEN [shown |-> TRUE, risk_category |-> RiskCategory(o.p),
          death_probability |-> o.p, survival_probability |-> 1000 - o.p]
    ELSE NoResult

\* the attribution stage is entered once the result is rendered
ShapAttempted(o) == o.predict = "returns" /\ o.render_ok

\* mutation: one try block for prediction and attribution
ShapMessagesOneTry(o) ==
    IF o.predict = "returns" /\ o.render_ok /\ ~o.shap_ok
    THEN <<"prediction_error", "prediction_warning">> ELSE <<>>

\* except Exception as shap_error: st.error, st.warning
ShapMessages(o) ==
    IF ShapAttempted(o) /\ ~o.shap_ok THEN <<"shap_error", "shap_warning">> ELSE <<>>

\* except Exception as e: st.error, st.warning
PredictionMessages(o) ==
    IF o.predict # "returns" \/ ~o.render_ok
    THEN <<"prediction_error", "prediction_warning">> ELSE <<>>

Predict ==
    /\ pc = "col2"
    /\ SubmitGuard(predict_button, model)
    /\ IF model.hasNames
          /\ missing_features(model.feature_names_in_, feature_values.keys) # <<>>
       THEN \* st.error, st.stop
            /\ messages' = Append(messages, "missing_features")
            /\ pc' = "stopped"
            /\ UNCHANGED <<model_input, shap_calls, result, shap_plot>>
       ELSE \E o \in Outcomes(model, features_df(model, feature_values)) :
            /\ model_input' = ModelCalls(model, features_df(model, feature_values), o)
            /\ result' = ResultCards(o)
            /\ shap_calls' = IF ShapAttempted(o) THEN 1 ELSE 0
            /\ shap_plot' = (ShapAttempted(o) /\ o.shap_ok)
            /\ messages' = messages \o ShapMessages(o) \o PredictionMessages(o)
            /\ pc' = "done"
    /\ UNCHANGED <<artifact, cache, model, runs, feature_input_order, feature_ranges,
                   sidebar_warnings, feature_values, predict_button, guide>>

\* the else branch of col2: the usage guide and the example cases
ShowGuide ==
    /\ pc = "col2"
    /\ ~SubmitGuard(predict_button, model)
    /\ guide' = TRUE
    /\ pc' = "done"
    /\ UNCHANGED <<artifact, cache, model, runs, feature_input_order, feature_ranges,
                   sidebar_warnings, feature_values, predict_button, model_input,
                   shap_calls, result, shap_plot, messages>>

\* a user interaction runs the script again from the top; only the cache stays
Rerun ==
    /\ pc \in {"done", "crashed", "stopped"}
    /\ runs < MaxRuns
    /\ runs' = runs + 1
    /\ pc' = "load"
    /\ feature_input_order' = <<>>
    /\ feature_ranges' = <<>>
    /\ sidebar_warnings' = <<>>
    /\ feature_values' = EmptyDict
    /\ predict_button' = FALSE
    /\ model_input' = <<>>
    /\ shap_calls' = 0
    /\ result' = NoResult
    /\ shap_plot' = FALSE
    /\ messages' = <<>>
    /\ guide' = FALSE
    /\ UNCHANGED <<artifact, cache, model>>

Next == LoadModel \/ Resolve \/ BuildForm \/ Predict \/ ShowGuide \/ Rerun

Spec == Init /\ [][Next]_vars

\* ================================================================= claims
RequiredOrder ==
    IF ~model.isNone /\ model.hasNames THEN model.feature_names_in_ ELSE RegistryOrder

Resolved == pc \notin {"load", "resolve"}

\* C1: every row handed to predict / predict_proba has its columns in exactly the
\* resolved required order (the model's feature_names_in_ when it exists, else
\* the registry declaration order), each column holding the value submitted
\* for that feature.
C1_RowInRequiredOrder ==
    \A i \in 1..Len(model_input) :
        /\ model_input[i].keys = feature_input_order
        /\ model_input[i].keys = RequiredOrder
        /\ \A j \in 1..Len(feature_input_order) :
              model_input[i].val[j] = DictGet(feature_values, feature_input_order[j])

\* a model whose order runs against the registry's was called with distinct values
C1_Witness ==
    /\ model_input # <<>>
    /\ model.feature_names_in_ = <<"Age", "CEA">>
    /\ model_input[1].val = <<9000, 868>>

\* C2: once resolved, feature_input_order is the model's feature-name list when a
\* model is loaded and exposes one, and the registry's declaration order
\* otherwise (no list, or no model).
C2_OrderResolved == Resolved => feature_input_order = RequiredOrder

\* resolved against a model that names a feature the registry lacks
C2_Witness ==
    /\ pc = "form"
    /\ model.feature_names_in_ = <<"BMI", "Age">>
    /\ feature_input_order = <<"BMI", "Age">>

\* C5: the shown tier is low iff p <= 30, moderate iff 30 < p <= 70 and high iff
\* p > 70, and it is always one of the three.
C5_TierPartition ==
    result.shown =>
        /\ result.risk_category \in {"low", "moderate", "high"}
        /\ result.risk_category = "low" <=> result.death_probability <= 300
        /\ result.risk_category = "moderate" <=>
              (result.death_probability > 300 /\ result.death_probability <= 700)
        /\ result.risk_category = "high" <=> result.death_probability > 700

\* a result of exactly 70% is shown as moderate
C5_Witness ==
    /\ result.shown
    /\ result.death_probability = 700
    /\ result.risk_category = "moderate"

\* C6 as stated: 30% is moderate, 70.0% moderate, 70.1% high, 0% low, 100% high.
C6_BoundaryCasesAsListed ==
    result.shown =>
        /\ result.death_probability = 300 => result.risk_category = "moderate"
        /\ result.death_probability = 700 => result.risk_category = "moderate"
        /\ result.death_probability = 701 => result.risk_category = "high"
        /\ result.death_probability = 0 => result.risk_category = "low"
        /\ result.death_probability = 1000 => result.risk_category = "high"

\* C6 amended: 30% is low; 70.0% moderate, 70.1% high, 0% low, 100% high.
C6_BoundaryCases ==
    result.shown =>
        /\ result.death_probability = 300 => result.risk_category = "low"
        /\ result.death_probability = 700 => result.risk_category = "moderate"
        /\ result.death_probability = 701 => result.risk_category = "high"
        /\ result.death_probability = 0 => result.risk_category = "low"
        /\ result.death_probability = 1000 => result.risk_category = "high"

\* a result of exactly 30% is shown
C6_Witness == result.shown /\ result.death_probability = 300

\* C7: attribution runs only after a shown prediction; when the engine raises,
\* the failure is reported as an attribution error and warning only, the result
\* stays shown and no prediction error is reported; a request that reports a
\* prediction error never reached the attribution engine.
C7_AttributionSoftFails ==
    /\ shap_calls > 0 => result.shown /\ ~Contains(messages, "prediction_error")
    /\ (shap_calls > 0 /\ ~shap_plot) =>
          /\ Contains(messages, "shap_error")
          /\ Contains(messages, "shap_warning")
    /\ Contains(messages, "shap_error") => shap_calls > 0
    /\ Contains(messages, "prediction_error") => shap_calls = 0

\* the engine raised after a result of 8% was shown
C7_Witness ==
    /\ Contains(messages, "shap_error")
    /\ ~shap_plot
    /\ result.shown
    /\ result.death_probability = 80

\* C8 as stated: a request that reports a prediction error shows no result.
C8_PredictionErrorShowsNoResult ==
    Contains(messages, "prediction_error") => ~result.shown

\* C9 as stated: with a model feature-name list, one warning per registry feature
\* the list lacks and one per listed feature the registry lacks, and the page
\* run is not aborted.
C9_GapsNonFatal ==
    (Resolved /\ ~model.isNone /\ model.hasNames) =>
        /\ Len(sidebar_warnings) =
              Cardinality(SeqRange(RegistryOrder) \ SeqRange(model.feature_names_in_))
              + Cardinality(SeqRange(model.feature_names_in_) \ SeqRange(RegistryOrder))
        /\ pc # "crashed"

\* C10: while the model handle is None, no run hands a row to the model, uses
\* the attribution engine, shows a result or reports a prediction error.
C10_NullModelNeverPredicts ==
    (cache = "filled" /\ model.isNone) =>
        /\ model_input = <<>>
        /\ shap_calls = 0
        /\ ~result.shown
        /\ ~shap_plot
        /\ ~Contains(messages, "prediction_error")

\* the form was submitted in a rerun with the handle still None
C10_Witness ==
    /\ model.isNone
    /\ runs = 2
    /\ predict_button
    /\ pc = "done"
    /\ guide

\* C11 as stated: whenever the loaded model declares an input arity, the resolved
\* required order has exactly that many names, and so has every row handed to
\* the model.
C11_OrderHasDeclaredArity ==
    (Resolved /\ ~model.isNone /\ model.hasN) =>
        /\ Len(feature_input_order) = model.n_features_in_
        /\ \A i \in 1..Len(model_input) :
              Len(model_input[i].keys) = model.n_features_in_

====
